---- MODULE Spec2Model ----
(***************************************************************************)
(* Model of src/batch.py: batch_import_movies, the bulk loader that reads  *)
(* a table of movie records, persists the movies, resolves the five        *)
(* categories of reference entities to identifiers and links movies to     *)
(* entities in five join tables.                                           *)
(*                                                                         *)
(* Text values are sequences of one-character strings: "A, a" is           *)
(* <<"A", ",", " ", "a">>.  A cell of the table is a record [kind, s]:     *)
(* kind "str" with its text s, kind "nan" for a missing cell (the float    *)
(* NaN read_csv produces), kind "none" for Python's None and kind "num"    *)
(* for a number found where text is expected.                              *)
(*                                                                         *)
(* The database is modelled by what PostgreSQL and psycopg2 do with the    *)
(* statements the code sends: a session view (txn) that commit copies to   *)
(* the committed store and rollback resets to it, identifiers given in the  *)
(* order of insertion, a primary key on movies.id, and                     *)
(* execute_values sending one statement per page, the cursor keeping the   *)
(* result of the last statement only.  Foreign keys of the join tables     *)
(* are deliberately not enforced by the model, so that referential         *)
(* integrity is a property of the code's own filtering.                    *)
(***************************************************************************)
EXTENDS Integers, Sequences, FiniteSets, TLC

(***************************************************************************)
(* Bounds of the model.                                                    *)
(***************************************************************************)
(* An invocation and one re-invocation on the same file. *)
Runs == {1, 2}

MaxRecords == 2

MaxBatchSize == 2

MaxFailures == 1

(***************************************************************************)
(* Program constants.                                                      *)
(***************************************************************************)
CurrentYear == 2026

YearWindow == 10

Categories == {"genres", "companies", "countries", "languages", "keywords"}

CatOrder == <<"genres", "companies", "countries", "languages", "keywords">>

(* Variant of NumCats: the last category left out of the sequence of calls. *)
NumCatsShort == Len(CatOrder) - 1

NumCats == Len(CatOrder)

(***************************************************************************)
(* Cells.                                                                  *)
(***************************************************************************)
Str(s) == [kind |-> "str", s |-> s]

NaN == [kind |-> "nan", s |-> <<>>]

None == [kind |-> "none", s |-> <<>>]

Num == [kind |-> "num", s |-> <<>>]

NaT == [nat |-> TRUE, year |-> 0]

Date(y) == [nat |-> FALSE, year |-> y]

(* Python truthiness of a cell: None and the empty string are falsy; NaN   *)
(* (a non-zero float) and any non-empty text are truthy.                   *)
Truthy(c) ==
    CASE c.kind = "none" -> FALSE
      [] c.kind = "str" -> c.s # <<>>
      [] OTHER -> TRUE

(* bool(Timestamp) and bool(NaT): neither defines falsiness. *)
TruthyDate(d) == TRUE

(* pd.notna *)
NotNa(c) == c.kind \notin {"nan", "none"}

(***************************************************************************)
(* str.strip and str.split(",")                                            *)
(***************************************************************************)
IsSpace(ch) == ch = " "

RECURSIVE LStrip(_)
LStrip(s) ==
    IF s # <<>> /\ IsSpace(Head(s)) THEN LStrip(Tail(s)) ELSE s

RECURSIVE RStrip(_)
RStrip(s) ==
    IF s # <<>> /\ IsSpace(s[Len(s)]) THEN RStrip(SubSeq(s, 1, Len(s) - 1)) ELSE s

(* Variant of Strip: lstrip() written for strip(). *)
StripLeftOnly(s) == LStrip(s)

Strip(s) == RStrip(LStrip(s))

RECURSIVE SplitFrom(_, _, _)
SplitFrom(s, cur, acc) ==
    IF s = <<>> THEN Append(acc, cur)
    ELSE IF Head(s) = "," THEN SplitFrom(Tail(s), <<>>, Append(acc, cur))
    ELSE SplitFrom(Tail(s), Append(cur, Head(s)), acc)

Split(s) == SplitFrom(s, <<>>, <<>>)

Range(f) == {f[i] : i \in DOMAIN f}

(* The trimmed pieces of a text field, in order. *)
Mentions(s) == [i \in DOMAIN Split(s) |-> Strip(Split(s)[i])]

(***************************************************************************)
(* The record normalizer, lines 16-30: read_csv delivers a missing cell as *)
(* NaN; replace() turns NaN into None in title and imdb_id; to_datetime    *)
(* coerces what is no date to NaT; the year filter keeps the rows whose    *)
(* release year is at least current_year - 10 (a comparison NaT fails).    *)
(***************************************************************************)
(* Variant of ReplaceNA: the replace() call left out, NaN stays NaN. *)
ReplaceNAKeepsNaN(c) == c

ReplaceNA(c) == IF c.kind = "nan" THEN None ELSE c

ToDatetime(c) == IF c.kind = "date" THEN Date(c.year) ELSE NaT

MinYear == CurrentYear - YearWindow

InWindow(d) == ~d.nat /\ d.year >= MinYear

NormalizeRow(r) ==
    [id |-> r.id,
     title |-> ReplaceNA(r.title),
     imdb_id |-> ReplaceNA(r.imdb_id),
     release_date |-> ToDatetime(r.release_date),
     fields |-> r.fields]

KeepRow(r) == InWindow(r.release_date)

Normalize(raw) == SelectSeq([i \in DOMAIN raw |-> NormalizeRow(raw[i])], KeepRow)

(***************************************************************************)
(* The first loop, lines 157-204: admissible records become movie tuples   *)
(* and their mentions are accumulated per category.  A present field that  *)
(* is no text has no split method: the loop raises.                        *)
(***************************************************************************)
Admissible(r) ==
    Truthy(r.title) /\ Truthy(r.imdb_id) /\ TruthyDate(r.release_date)

MovieTuple(r) ==
    [id |-> r.id, title |-> r.title, imdb_id |-> r.imdb_id,
     release_date |-> r.release_date]

PrepareMovies(df) ==
    LET adm == SelectSeq(df, Admissible)
    IN  [i \in DOMAIN adm |-> MovieTuple(adm[i])]

Unsplittable(f) == NotNa(f) /\ f.kind # "str"

FieldMentions(f) == IF NotNa(f) THEN Range(Mentions(f.s)) ELSE {}

CollectEntities(df, c) ==
    UNION {FieldMentions(df[i].fields[c]) : i \in {j \in DOMAIN df : Admissible(df[j])}}

CollectRaises(df) ==
    \E i \in DOMAIN df : Admissible(df[i]) /\ \E c \in Categories : Unsplittable(df[i].fields[c])

(***************************************************************************)
(* The database.  A store holds the movies table, the five reference       *)
(* tables and the five join tables.                                        *)
(***************************************************************************)
EmptyStore ==
    [movies |-> {},
     ref |-> [c \in Categories |-> {}],
     join |-> [c \in Categories |-> {}]]

(* Variant of Commit: the commit() call left out. *)
CommitOmitted(st, tx) == st

Commit(st, tx) == tx

(* Variant of Rollback: the rollback() call left out. *)
RollbackKeeps(st, tx) == tx

Rollback(st, tx) == st

RECURSIVE PagesFrom(_, _, _)
PagesFrom(rows, n, acc) ==
    IF rows = <<>> THEN acc
    ELSE IF Len(rows) <= n THEN Append(acc, rows)
    ELSE PagesFrom(SubSeq(rows, n + 1, Len(rows)), n, Append(acc, SubSeq(rows, 1, n)))

(* execute_values: the argument list cut into pages of page_size rows. *)
Pages(rows, n) == PagesFrom(rows, n, <<>>)

MovieIds(tbl) == {r.id : r \in tbl}

(* Variant of InsertMovieRow: the ON CONFLICT clause left out, so that a    *)
(* row whose imdb_id exists violates the unique constraint.                *)
InsertMovieRowNoConflict(tbl, t) ==
    IF (\E r \in tbl : r.imdb_id = t.imdb_id) \/ t.id \in {r.id : r \in tbl}
    THEN [tbl |-> tbl, err |-> TRUE]
    ELSE [tbl |-> tbl \cup {t}, err |-> FALSE]

(* Variant of InsertMovieRow: ON CONFLICT (imdb_id) DO UPDATE, the stored  *)
(* row replaced by the incoming one.                                       *)
InsertMovieRowUpdates(tbl, t) ==
    LET rest == {r \in tbl : r.imdb_id # t.imdb_id}
    IN  IF t.id \in {r.id : r \in rest}
        THEN [tbl |-> tbl, err |-> TRUE]
        ELSE [tbl |-> rest \cup {t}, err |-> FALSE]

(* One row of INSERT INTO movies ... ON CONFLICT (imdb_id) DO NOTHING: a   *)
(* row whose imdb_id exists is skipped; a row whose id exists violates the *)
(* primary key, which the conflict clause does not cover.                  *)
InsertMovieRow(tbl, t) ==
    IF \E r \in tbl : r.imdb_id = t.imdb_id THEN [tbl |-> tbl, err |-> FALSE]
    ELSE IF t.id \in MovieIds(tbl) THEN [tbl |-> tbl, err |-> TRUE]
    ELSE [tbl |-> tbl \cup {t}, err |-> FALSE]

RECURSIVE InsertMovieRows(_, _)
InsertMovieRows(tbl, rows) ==
    IF rows = <<>> THEN [tbl |-> tbl, err |-> FALSE]
    ELSE LET one == InsertMovieRow(tbl, Head(rows))
         IN  IF one.err THEN one ELSE InsertMovieRows(one.tbl, Tail(rows))

RECURSIVE MoviePagesFrom(_, _, _, _)
MoviePagesFrom(tbl, pages, k, failPage) ==
    IF k > Len(pages) THEN [tbl |-> tbl, err |-> FALSE, page |-> 0]
    ELSE IF k = failPage THEN [tbl |-> tbl, err |-> TRUE, page |-> k]
    ELSE LET one == InsertMovieRows(tbl, pages[k])
         IN  IF one.err THEN [tbl |-> one.tbl, err |-> TRUE, page |-> k]
             ELSE MoviePagesFrom(one.tbl, pages, k + 1, failPage)

ExecuteValuesMovies(tbl, rows, n, failPage) ==
    MoviePagesFrom(tbl, Pages(rows, n), 1, failPage)

RefNames(tbl) == {r.name : r \in tbl}

(* The identifier the table gives its next row. *)
NextId(tbl) == Cardinality(tbl) + 1

(* One row of INSERT INTO table (col) ... ON CONFLICT (col) DO NOTHING     *)
(* RETURNING id, col: st.ret collects the rows the statement returns.      *)
InsertRefRow(st, v) ==
    IF v \in RefNames(st.tbl)
    THEN st
    ELSE LET row == [id |-> NextId(st.tbl), name |-> v]
         IN  [tbl |-> st.tbl \cup {row}, ret |-> st.ret \cup {row}]

RECURSIVE InsertRefRows(_, _)
InsertRefRows(st, rows) ==
    IF rows = <<>> THEN st ELSE InsertRefRows(InsertRefRow(st, Head(rows)), Tail(rows))

(* The rows a fetchall() after execute_values sees: each page is one       *)
(* statement, and the cursor holds the result of the last one.             *)
CursorAfterPage(previous, page) == page

RECURSIVE RefPagesFrom(_, _, _, _)
RefPagesFrom(st, pages, k, failPage) ==
    IF k > Len(pages) THEN [tbl |-> st.tbl, ret |-> st.ret, err |-> FALSE, page |-> 0]
    ELSE IF k = failPage THEN [tbl |-> st.tbl, ret |-> {}, err |-> TRUE, page |-> k]
    ELSE LET one == InsertRefRows([tbl |-> st.tbl, ret |-> {}], pages[k])
         IN  RefPagesFrom([one EXCEPT !.ret = CursorAfterPage(st.ret, one.ret)],
                          pages, k + 1, failPage)

ExecuteValuesRef(tbl, rows, n, failPage) ==
    RefPagesFrom([tbl |-> tbl, ret |-> {}], Pages(rows, n), 1, failPage)

(* One row of INSERT INTO join (movie, entity) ... ON CONFLICT DO NOTHING. *)
InsertEdgeRow(tbl, e) == tbl \cup {e}

RECURSIVE InsertEdgeRows(_, _)
InsertEdgeRows(tbl, rows) ==
    IF rows = <<>> THEN tbl ELSE InsertEdgeRows(InsertEdgeRow(tbl, Head(rows)), Tail(rows))

RECURSIVE EdgePagesFrom(_, _, _, _)
EdgePagesFrom(tbl, pages, k, failPage) ==
    IF k > Len(pages) THEN [tbl |-> tbl, err |-> FALSE, page |-> 0]
    ELSE IF k = failPage THEN [tbl |-> tbl, err |-> TRUE, page |-> k]
    ELSE EdgePagesFrom(InsertEdgeRows(tbl, pages[k]), pages, k + 1, failPage)

ExecuteValuesEdges(tbl, rows, n, failPage) ==
    EdgePagesFrom(tbl, Pages(rows, n), 1, failPage)

(***************************************************************************)
(* Injected storage failures: where in a handler the storage layer raises. *)
(***************************************************************************)
NoFail == [at |-> "none", page |-> 0]

FailAt(a) == [at |-> a, page |-> 0]

InsertFails(npages) == {[at |-> "insert", page |-> k] : k \in 1..npages}

FailPage(fail) == IF fail.at = "insert" THEN fail.page ELSE 0

Entry(step, c, status, at, page) ==
    [step |-> step, cat |-> c, status |-> status, at |-> at, page |-> page]

NoEntry == Entry("-", "-", "-", "-", 0)

(***************************************************************************)
(* batch_insert_movies, lines 84-111.                                      *)
(***************************************************************************)
MovieFailPoints(movies, n) ==
    InsertFails(Len(Pages(movies, n))) \cup {FailAt("commit"), FailAt("select")}

batch_insert_movies(st, tx, movies, n, fail) ==
    LET ex == ExecuteValuesMovies(tx.movies, movies, n, FailPage(fail))
        tx1 == [tx EXCEPT !.movies = ex.tbl]
    IN  IF ex.err
        THEN [store |-> st, txn |-> Rollback(st, tx1), result |-> {},
              log |-> Entry("movies", "-", "failed", "insert", ex.page)]
        ELSE IF fail.at = "commit"
        THEN [store |-> st, txn |-> Rollback(st, tx1), result |-> {},
              log |-> Entry("movies", "-", "failed", "commit", 0)]
        ELSE IF fail.at = "select"
        THEN [store |-> Commit(st, tx1), txn |-> Rollback(Commit(st, tx1), tx1),
              result |-> {},
              log |-> Entry("movies", "-", "failed", "select", 0)]
        ELSE [store |-> Commit(st, tx1), txn |-> tx1, result |-> MovieIds(tx1.movies),
              log |-> Entry("movies", "-", "ok", "none", 0)]

(***************************************************************************)
(* batch_insert_data, lines 46-82.  order is the order in which the set    *)
(* data is iterated; a mapping is a function from value to identifier.     *)
(***************************************************************************)
EmptyMap == [v \in {} |-> 0]

IdOf(rows, v) == (CHOOSE r \in rows : r.name = v).id

(* id_mapping[row[1]] = row[0] for each row *)
MergeRows(m, rows) ==
    [v \in DOMAIN m \cup RefNames(rows) |->
        IF v \in RefNames(rows) THEN IdOf(rows, v) ELSE m[v]]

NewValues(order, m) ==
    LET keep(v) == v \notin DOMAIN m IN SelectSeq(order, keep)

DataFailPoints(tx, order, c, n) ==
    LET new == NewValues(order, MergeRows(EmptyMap, tx.ref[c]))
    IN  {FailAt("select")} \cup
        IF new = <<>> THEN {}
        ELSE InsertFails(Len(Pages(new, n))) \cup {FailAt("commit"), FailAt("fetch")}

batch_insert_data(st, tx, order, c, n, fail) ==
    IF fail.at = "select"
    THEN [store |-> st, txn |-> Rollback(st, tx), result |-> EmptyMap,
          log |-> Entry("resolve", c, "failed", "select", 0)]
    ELSE
    LET existing == MergeRows(EmptyMap, tx.ref[c])
        new == NewValues(order, existing)
        ex == ExecuteValuesRef(tx.ref[c], new, n, FailPage(fail))
        tx1 == [tx EXCEPT !.ref[c] = ex.tbl]
    IN  IF new = <<>>
        THEN [store |-> st, txn |-> tx, result |-> existing,
              log |-> Entry("resolve", c, "ok", "none", 0)]
        ELSE IF ex.err
        THEN [store |-> st, txn |-> Rollback(st, tx1),
              result |-> existing,
              log |-> Entry("resolve", c, "failed", "insert", ex.page)]
        ELSE IF fail.at = "commit"
        THEN [store |-> st, txn |-> Rollback(st, tx1),
              result |-> existing,
              log |-> Entry("resolve", c, "failed", "commit", 0)]
        ELSE IF fail.at = "fetch"
        THEN [store |-> Commit(st, tx1), txn |-> Rollback(Commit(st, tx1), tx1), result |-> existing,
              log |-> Entry("resolve", c, "failed", "fetch", 0)]
        ELSE [store |-> Commit(st, tx1), txn |-> tx1,
              result |-> MergeRows(existing, ex.ret),
              log |-> Entry("resolve", c, "ok", "none", 0)]

(***************************************************************************)
(* The second loop, lines 217-249: every record of df (admissible or not)  *)
(* yields one edge per mention that is a key of the category's mapping.    *)
(***************************************************************************)
(* Variant of MentionMapped: the membership test left out. *)
MentionAlwaysMapped(m, mapping) == TRUE

MentionMapped(m, mapping) == m \in DOMAIN mapping

RecordMentions(r, c) ==
    IF NotNa(r.fields[c]) /\ r.fields[c].kind = "str" THEN Mentions(r.fields[c].s) ELSE <<>>

RecordEdges(r, c, mapping) ==
    LET ms == RecordMentions(r, c)
        keep(m) == MentionMapped(m, mapping)
        kept == SelectSeq(ms, keep)
    IN  [i \in DOMAIN kept |-> <<r.id, IF kept[i] \in DOMAIN mapping THEN mapping[kept[i]] ELSE 0>>]

(* genre_ids[x] for an x that is no key raises KeyError. *)
RecordKeyError(r, c, mapping) ==
    \E m \in Range(RecordMentions(r, c)) : MentionMapped(m, mapping) /\ m \notin DOMAIN mapping

RECURSIVE EdgesFrom(_, _, _, _)
EdgesFrom(df, i, c, mapping) ==
    IF i > Len(df) THEN <<>>
    ELSE RecordEdges(df[i], c, mapping) \o EdgesFrom(df, i + 1, c, mapping)

(* Variant of BuildEdges: the loop left after its first record. *)
BuildEdgesFirstOnly(df, c, mapping) ==
    IF df = <<>> THEN <<>> ELSE RecordEdges(df[1], c, mapping)

BuildEdges(df, c, mapping) == EdgesFrom(df, 1, c, mapping)

BuildRaises(df, maps) ==
    \E i \in DOMAIN df : \E c \in Categories :
        Unsplittable(df[i].fields[c]) \/ RecordKeyError(df[i], c, maps[c])

(***************************************************************************)
(* batch_insert_relationships, lines 113-140.                              *)
(***************************************************************************)
(* Variants of ValidEdge: the filter left out; the filter on the wrong column. *)
ValidEdgeNoFilter(rel, valid) == TRUE

ValidEdgeWrongColumn(rel, valid) == rel[2] \in valid

ValidEdge(rel, valid) == rel[1] \in valid

FilterValid(rels, valid) ==
    LET keep(rel) == ValidEdge(rel, valid) IN SelectSeq(rels, keep)

LinkFailPoints(rels, valid, n) ==
    InsertFails(Len(Pages(FilterValid(rels, valid), n))) \cup {FailAt("commit")}

batch_insert_relationships(st, tx, rels, c, valid, n, fail) ==
    LET ex == ExecuteValuesEdges(tx.join[c], FilterValid(rels, valid), n, FailPage(fail))
        tx1 == [tx EXCEPT !.join[c] = ex.tbl]
    IN  IF ex.err
        THEN [store |-> st, txn |-> Rollback(st, tx1),
              log |-> Entry("link", c, "failed", "insert", ex.page)]
        ELSE IF fail.at = "commit"
        THEN [store |-> st, txn |-> Rollback(st, tx1),
              log |-> Entry("link", c, "failed", "commit", 0)]
        ELSE [store |-> Commit(st, tx1), txn |-> tx1,
              log |-> Entry("link", c, "ok", "none", 0)]

(* Variant of AfterHandler: the except block re-raises. *)
AfterHandlerRaises(log, next) == IF log.status = "failed" THEN "except" ELSE next

(* What a handler's except block leaves to its caller: it returns, and     *)
(* the caller goes on with the next statement.                             *)
AfterHandler(log, next) == next

(***************************************************************************)
(* Inputs: the rows read_csv may deliver.  A raw row holds the cells the   *)
(* pipeline reads; the four categories other than genres share one cell.   *)
(***************************************************************************)
DateCell(y) == [kind |-> "date", year |-> y]

NoDate == [kind |-> "nan", year |-> 0]

RawRow(id, title, imdb, date, genres, others) ==
    [id |-> id, title |-> title, imdb_id |-> imdb, release_date |-> date,
     fields |-> [c \in Categories |-> IF c = "genres" THEN genres ELSE others]]

Title == Str(<<"T">>)

Imdb1 == Str(<<"t", "1">>)

Imdb2 == Str(<<"t", "2">>)

Recent == DateCell(CurrentYear - 6)

RowPool ==
    { RawRow(1, Title, Imdb1, Recent, Str(<<"A">>), Str(<<"B">>)),
      RawRow(2, Title, Imdb2, Recent, Str(<<" ", "A", ",", "a", " ">>), NaN),
      RawRow(1, Title, Imdb2, Recent, Str(<<"a", ",">>), NaN),
      RawRow(2, NaN, Imdb2, Recent, Str(<<"A">>), Str(<<"B">>)),
      RawRow(2, Title, NaN, Recent, Str(<<"a">>), NaN),
      RawRow(1, Title, Imdb1, NoDate, Str(<<"A">>), NaN),
      RawRow(2, Title, Imdb1, Recent, Num, NaN),
      RawRow(2, Title, Imdb2, Recent, Str(<<"A">>), NaN) }

(* A file in which a record without title has the id of one admissible    *)
(* record and the mentions of another.                                     *)
SharedIdFile ==
    << RawRow(1, Title, Imdb1, Recent, Str(<<"A">>), Str(<<"B">>)),
       RawRow(2, Title, Imdb2, Recent, Str(<<"A">>), NaN),
       RawRow(2, NaN, Imdb2, Recent, Str(<<"A">>), Str(<<"B">>)) >>

(* The files of at most MaxRecords rows, no row repeated, and SharedIdFile. *)
RawInputs ==
    UNION {{s \in [1..n -> RowPool] : \A i, j \in 1..n : i # j => s[i] # s[j]} :
             n \in 0..MaxRecords}
    \cup {SharedIdFile}

(* The orders in which a Python set may be iterated. *)
Orders(S) == {s \in [1..Cardinality(S) -> S] : Range(s) = S}

(***************************************************************************)
(* State.                                                                  *)
(***************************************************************************)
VARIABLES
    raw,              \* the rows of the CSV file
    batch_size,       \* the batch_size argument
    df,               \* the normalized frame
    pc,               \* the statement the run is at
    cat,              \* the index in CatOrder of the category being handled
    run,              \* 1 for the first invocation, 2 for the re-run, ...
    failures,         \* storage failures injected so far
    conn,             \* "none", "open" or "closed"
    store,            \* the committed database
    txn,              \* the database as the session sees it
    movies,           \* the list of movie tuples
    all_entities,     \* all_genres, all_companies, ... : category -> set
    valid_movie_ids,  \* the result of batch_insert_movies
    ids,              \* genre_ids, company_ids, ... : category -> mapping
    rels,             \* genre_relationships, ... : category -> list of edges
    last,             \* the last handler run in this invocation and its outcome
    raised,           \* an exception reached the outer except block
    storeAtStart      \* the committed database when this invocation began

vars == <<raw, batch_size, df, pc, cat, run, failures, conn, store, txn,
          movies, all_entities, valid_movie_ids, ids, rels, last, raised,
          storeAtStart>>

inputs == <<raw, batch_size>>

locals == <<movies, all_entities, valid_movie_ids, ids, rels>>

db == <<store, txn>>

NoEntities == [c \in Categories |-> {}]

NoMaps == [c \in Categories |-> EmptyMap]

NoRels == [c \in Categories |-> <<>>]

Init ==
    /\ raw \in RawInputs
    /\ batch_size \in 1..MaxBatchSize
    /\ df = <<>>
    /\ pc = "load"
    /\ cat = 0
    /\ run = 1
    /\ failures = 0
    /\ conn = "none"
    /\ store = EmptyStore
    /\ txn = EmptyStore
    /\ movies = <<>>
    /\ all_entities = NoEntities
    /\ valid_movie_ids = {}
    /\ ids = NoMaps
    /\ rels = NoRels
    /\ last = NoEntry
    /\ raised = FALSE
    /\ storeAtStart = EmptyStore

MayFail(points) == {NoFail} \cup (IF failures < MaxFailures THEN points ELSE {})

Injected(fail) == IF fail = NoFail THEN 0 ELSE 1

(* lines 16-30 *)
Load ==
    /\ pc = "load"
    /\ df' = Normalize(raw)
    /\ pc' = "connect"
    /\ UNCHANGED <<inputs, cat, run, failures, conn, db, locals, last, raised, storeAtStart>>

(* lines 32-41 *)
Connect ==
    /\ pc = "connect"
    /\ conn' = "open"
    /\ pc' = "collect"
    /\ UNCHANGED <<inputs, df, cat, run, failures, db, locals, last, raised, storeAtStart>>

(* lines 42-44 *)
ConnectFails ==
    /\ pc = "connect"
    /\ failures < MaxFailures
    /\ failures' = failures + 1
    /\ pc' = "returned"
    /\ UNCHANGED <<inputs, df, cat, run, conn, db, locals, last, raised, storeAtStart>>

(* lines 143-204 *)
ProcessMovies ==
    /\ pc = "collect"
    /\ IF CollectRaises(df)
       THEN /\ pc' = "except"
            /\ raised' = TRUE
            /\ UNCHANGED <<movies, all_entities>>
       ELSE /\ pc' = "movies"
            /\ movies' = PrepareMovies(df)
            /\ all_entities' = [c \in Categories |-> CollectEntities(df, c)]
            /\ UNCHANGED raised
    /\ UNCHANGED <<inputs, df, cat, run, failures, conn, db, valid_movie_ids, ids, rels,
                   last, storeAtStart>>

(* line 207 *)
InsertMovies ==
    /\ pc = "movies"
    /\ \E fail \in MayFail(MovieFailPoints(movies, batch_size)) :
         \E res \in {batch_insert_movies(store, txn, movies, batch_size, fail)} :
         \E next \in {AfterHandler(res.log, "resolve")} :
             /\ store' = res.store
             /\ txn' = res.txn
             /\ valid_movie_ids' = res.result
             /\ last' = res.log
             /\ failures' = failures + Injected(fail)
             /\ pc' = next
             /\ cat' = IF next = "resolve" THEN 1 ELSE 0
             /\ raised' = (next = "except")
    /\ UNCHANGED <<inputs, df, run, conn, movies, all_entities, ids, rels, storeAtStart>>

(* lines 210-214 *)
ResolveEntities ==
    /\ pc = "resolve"
    /\ LET c == CatOrder[cat]
       IN  \E order \in Orders(all_entities[c]) :
           \E fail \in MayFail(DataFailPoints(txn, order, c, batch_size)) :
             \E res \in {batch_insert_data(store, txn, order, c, batch_size, fail)} :
             \E next \in {AfterHandler(res.log, IF cat < NumCats THEN "resolve" ELSE "build")} :
                 /\ store' = res.store
                 /\ txn' = res.txn
                 /\ ids' = [ids EXCEPT ![c] = res.result]
                 /\ last' = res.log
                 /\ failures' = failures + Injected(fail)
                 /\ pc' = next
                 /\ cat' = IF next = "resolve" THEN cat + 1 ELSE 0
                 /\ raised' = (next = "except")
    /\ UNCHANGED <<inputs, df, run, conn, movies, all_entities, valid_movie_ids, rels,
                   storeAtStart>>

(* lines 217-249 *)
BuildRelationships ==
    /\ pc = "build"
    /\ IF BuildRaises(df, ids)
       THEN /\ pc' = "except"
            /\ raised' = TRUE
            /\ UNCHANGED <<rels, cat>>
       ELSE /\ pc' = "link"
            /\ cat' = 1
            /\ rels' = [c \in Categories |-> BuildEdges(df, c, ids[c])]
            /\ UNCHANGED raised
    /\ UNCHANGED <<inputs, df, run, failures, conn, db, movies, all_entities,
                   valid_movie_ids, ids, last, storeAtStart>>

(* lines 252-282 *)
InsertRelationships ==
    /\ pc = "link"
    /\ LET c == CatOrder[cat]
       IN  \E fail \in MayFail(LinkFailPoints(rels[c], valid_movie_ids, batch_size)) :
             \E res \in {batch_insert_relationships(store, txn, rels[c], c,
                                                     valid_movie_ids, batch_size, fail)} :
             \E next \in {AfterHandler(res.log, IF cat < NumCats THEN "link" ELSE "close")} :
                 /\ store' = res.store
                 /\ txn' = res.txn
                 /\ last' = res.log
                 /\ failures' = failures + Injected(fail)
                 /\ pc' = next
                 /\ cat' = IF next = "link" THEN cat + 1 ELSE 0
                 /\ raised' = (next = "except")
    /\ UNCHANGED <<inputs, df, run, conn, locals, storeAtStart>>

(* lines 286-288 *)
HandleError ==
    /\ pc = "except"
    /\ txn' = Rollback(store, txn)
    /\ pc' = "close"
    /\ UNCHANGED <<inputs, df, cat, run, failures, conn, store, locals, last,
                   raised, storeAtStart>>

(* Variant of Close: the finally block left out, the function returns    *)
(* with the connection open.                                               *)
CloseSkipped ==
    /\ pc = "close"
    /\ pc' = "returned"
    /\ UNCHANGED <<inputs, df, cat, run, failures, conn, db, locals, last, raised,
                   storeAtStart>>

(* lines 284, 289-292 *)
Close ==
    /\ pc = "close"
    /\ conn' = "closed"
    /\ pc' = "closed"
    /\ UNCHANGED <<inputs, df, cat, run, failures, db, locals, last, raised, storeAtStart>>

(* line 304, once more: the same file against the store the last run left *)
Rerun ==
    /\ pc \in {"closed", "returned"}
    /\ run + 1 \in Runs
    /\ run' = run + 1
    /\ pc' = "load"
    /\ df' = <<>>
    /\ cat' = 0
    /\ conn' = "none"
    /\ txn' = store
    /\ movies' = <<>>
    /\ all_entities' = NoEntities
    /\ valid_movie_ids' = {}
    /\ ids' = NoMaps
    /\ rels' = NoRels
    /\ last' = NoEntry
    /\ raised' = FALSE
    /\ storeAtStart' = store
    /\ UNCHANGED <<inputs, failures, store>>

Next ==
    \/ Load
    \/ Connect
    \/ ConnectFails
    \/ ProcessMovies
    \/ InsertMovies
    \/ ResolveEntities
    \/ BuildRelationships
    \/ InsertRelationships
    \/ HandleError
    \/ Close
    \/ Rerun

Spec == Init /\ [][Next]_vars

(* The interpreter runs a started program on: a step that can be taken is  *)
(* eventually taken.                                                       *)
FairSpec == Spec /\ WF_vars(Next)

(***************************************************************************)
(* Properties.                                                             *)
(***************************************************************************)
RefIds(tbl) == {r.id : r \in tbl}

PastMovies == last.step # "-"

(* The run is the failure-free re-run of a failure-free first run. *)
CleanRerunDone == run = 2 /\ pc = "closed" /\ failures = 0

(* C1: running the pipeline twice on the same input from an empty store,   *)
(* with no failure injected, leaves every table exactly as running it once *)
(* does: the second run adds no movie, no entity and no edge.              *)
C1_Idempotence == CleanRerunDone => store = storeAtStart

(* C2: when batch_insert_data returns without a storage failure, every     *)
(* value of its data that is a row of the target table after the call is a *)
(* key of the returned mapping, bound to that row's identifier.            *)
C2_ResolverComplete ==
    (last.step = "resolve" /\ last.status = "ok") =>
        \A v \in all_entities[last.cat] :
            v \in RefNames(txn.ref[last.cat]) =>
                /\ v \in DOMAIN ids[last.cat]
                /\ ids[last.cat][v] = IdOf(txn.ref[last.cat], v)

(* C3: every edge of a join table, committed or in the session, has a      *)
(* movie id that is a row of the movies table and an entity id that is a   *)
(* row of the category's reference table, whatever steps failed.           *)
C3_ReferentialIntegrity ==
    \A c \in Categories :
        /\ \A e \in txn.join[c] :
              e[1] \in MovieIds(txn.movies) /\ e[2] \in RefIds(txn.ref[c])
        /\ \A e \in store.join[c] :
              e[1] \in MovieIds(store.movies) /\ e[2] \in RefIds(store.ref[c])

(* A run has ended with edges persisted although a storage failure was     *)
(* injected and an edge built from the records was held back by the filter. *)
C3_Witness ==
    /\ pc = "closed"
    /\ failures > 0
    /\ store.join["genres"] # {}
    /\ \E i \in DOMAIN rels["genres"] : rels["genres"][i][1] \notin valid_movie_ids

MissingCell(r) ==
    r.title.kind = "nan" \/ r.imdb_id.kind = "nan" \/ r.release_date.kind = "nan"

(* C4: a record whose title, imdb_id or release date is missing never      *)
(* becomes a row of the movies table, and no row of the table has a        *)
(* missing title, imdb_id or release date.                                 *)
C4_Admissibility ==
    /\ \A i \in DOMAIN raw :
          MissingCell(raw[i]) =>
              MovieTuple(NormalizeRow(raw[i])) \notin (txn.movies \cup store.movies)
    /\ \A m \in txn.movies \cup store.movies :
          m.title.kind = "str" /\ m.imdb_id.kind = "str" /\ ~m.release_date.nat

(* A run has persisted a movie from a file that also holds a record with   *)
(* a missing title.                                                        *)
C4_Witness ==
    /\ pc = "closed"
    /\ store.movies # {}
    /\ \E i \in DOMAIN raw : raw[i].title.kind = "nan"

(* C5: once batch_insert_movies has returned the empty set, no edge is     *)
(* inserted into any join table during that run.                           *)
C5_MovieGatedLinking ==
    (PastMovies /\ valid_movie_ids = {}) =>
        /\ store.join = storeAtStart.join
        /\ txn.join = storeAtStart.join

(* The movie upsert of a non-empty batch failed, all five categories       *)
(* resolved to non-empty mappings and produced edges, and the run ended.   *)
C5_Witness ==
    /\ pc = "closed"
    /\ last.step = "link"
    /\ movies # <<>>
    /\ valid_movie_ids = {}
    /\ \A c \in Categories : DOMAIN ids[c] # {} /\ rels[c] # <<>>

RowsWithCode(tbl, code) == {r \in tbl : r.imdb_id = code}

(* C6: a successful batch_insert_movies returns exactly the identifiers of *)
(* the rows the movies table then holds, old and new.  On a re-run with no *)
(* failure injected, a movie whose imdb_id the store already holds gets no *)
(* new row, the upsert succeeds, the stored row's identifier is in the     *)
(* returned set, and every edge built for a stored movie is in the join    *)
(* table after its category is linked.                                     *)
C6_UpsertResultAndRerun ==
    /\ (last.step = "movies" /\ last.status = "ok") =>
          /\ valid_movie_ids = MovieIds(txn.movies)
          /\ txn.movies = store.movies
          /\ storeAtStart.movies \subseteq txn.movies
    /\ (run = 2 /\ failures = 0 /\ last.step = "movies") =>
          \A i \in DOMAIN movies :
              RowsWithCode(storeAtStart.movies, movies[i].imdb_id) # {} =>
                  /\ last.status = "ok"
                  /\ RowsWithCode(txn.movies, movies[i].imdb_id)
                        = RowsWithCode(storeAtStart.movies, movies[i].imdb_id)
                  /\ MovieIds(RowsWithCode(storeAtStart.movies, movies[i].imdb_id))
                        \subseteq valid_movie_ids
    /\ (run = 2 /\ failures = 0 /\ last.step = "link") =>
          /\ last.status = "ok"
          /\ \A i \in DOMAIN rels[last.cat] :
                rels[last.cat][i][1] \in MovieIds(storeAtStart.movies) =>
                    rels[last.cat][i] \in txn.join[last.cat]

(* The failure-free re-run has just upserted a batch holding a movie the   *)
(* store already had, whose edge the first run persisted.                  *)
C6_Witness ==
    /\ run = 2
    /\ failures = 0
    /\ last.step = "movies"
    /\ last.status = "ok"
    /\ \E i \in DOMAIN movies :
          /\ RowsWithCode(storeAtStart.movies, movies[i].imdb_id) # {}
          /\ \E e \in storeAtStart.join["genres"] : e[1] = movies[i].id

StepAfter(p, k) ==
    IF k < NumCats THEN p ELSE IF p = "resolve" THEN "build" ELSE "close"

(* C7: a storage failure in one category's batch_insert_data or            *)
(* batch_insert_relationships leaves the movies table and every other      *)
(* category's tables as they were, committed and as the session sees them, *)
(* loses nothing of the failing category that was committed, and the run   *)
(* goes on with the next statement.                                        *)
C7_FailureIsolation ==
    [][(pc \in {"resolve", "link"} /\ last'.status = "failed") =>
          /\ store'.movies = store.movies
          /\ txn'.movies = txn.movies
          /\ \A d \in Categories \ {CatOrder[cat]} :
                /\ store'.ref[d] = store.ref[d] /\ txn'.ref[d] = txn.ref[d]
                /\ store'.join[d] = store.join[d] /\ txn'.join[d] = txn.join[d]
          /\ store.ref[CatOrder[cat]] \subseteq store'.ref[CatOrder[cat]]
          /\ store.join[CatOrder[cat]] \subseteq store'.join[CatOrder[cat]]
          /\ txn' = store'
          /\ pc' = StepAfter(pc, cat)
          /\ ~raised'
      ]_vars

(* The run ended with the genre resolution failed (no genre persisted),    *)
(* the movies still stored, and a later category resolved and linked.      *)
C7_Witness ==
    /\ pc = "closed"
    /\ failures > 0
    /\ all_entities["genres"] # {}
    /\ store.ref["genres"] = {}
    /\ store.movies # {}
    /\ store.ref["companies"] # {}
    /\ store.join["keywords"] # {}

(* C8: when the bulk insert of movies fails, at any page or at the commit, *)
(* the movies table holds exactly the rows it held before the step and the *)
(* returned set is empty.                                                  *)
C8_MovieFailureTotal ==
    (last.step = "movies" /\ last.status = "failed" /\ last.at \in {"insert", "commit"}) =>
        /\ txn.movies = storeAtStart.movies
        /\ store.movies = storeAtStart.movies
        /\ valid_movie_ids = {}

(* The insert failed at its second page, after the first page was sent. *)
C8_Witness ==
    /\ last.step = "movies"
    /\ last.status = "failed"
    /\ last.at = "insert"
    /\ last.page = 2
    /\ Len(movies) >= 2

MentionSlots(r, c) == {k \in DOMAIN RecordMentions(r, c) : TRUE}

RECURSIVE MappedCount(_, _, _, _)
MappedCount(frame, i, c, mapping) ==
    IF i > Len(frame) THEN 0
    ELSE Cardinality({k \in MentionSlots(frame[i], c) :
                         RecordMentions(frame[i], c)[k] \in DOMAIN mapping})
         + MappedCount(frame, i + 1, c, mapping)

(* The second loop has just ended; the edge lists do not change after it. *)
JustBuilt == pc = "link" /\ cat = 1

Built == pc \in {"link", "close", "closed"} /\ last.step \in {"resolve", "link"}

(* C9: relationship construction emits one edge per mention that is a key  *)
(* of the category's mapping and none for a mention that is not, raises no *)
(* error for an unmapped mention, and only edges to mapped entities are    *)
(* persisted.                                                              *)
C9_DanglingMentionDrop ==
    /\ JustBuilt =>
          \A c \in Categories :
              /\ Len(rels[c]) = MappedCount(df, 1, c, ids[c])
              /\ \A i \in DOMAIN rels[c] :
                    \E j \in DOMAIN df : \E m \in Range(RecordMentions(df[j], c)) :
                        /\ m \in DOMAIN ids[c]
                        /\ rels[c][i] = <<df[j].id, ids[c][m]>>
    /\ Built =>
          \A c \in Categories :
              \A e \in txn.join[c] \ storeAtStart.join[c] :
                  \E m \in DOMAIN ids[c] : e[2] = ids[c][m]
    /\ (raised /\ last.step = "resolve") =>
          \E j \in DOMAIN df : \E c \in Categories : Unsplittable(df[j].fields[c])

(* A record has one mention that is no key of the mapping and one that is, *)
(* the run ended normally and the edge of the mapped mention is persisted. *)
C9_Witness ==
    /\ pc = "closed"
    /\ ~raised
    /\ \E j \in DOMAIN df : \E m1, m2 \in Range(RecordMentions(df[j], "genres")) :
          /\ m1 \notin DOMAIN ids["genres"]
          /\ m2 \in DOMAIN ids["genres"]
          /\ <<df[j].id, ids["genres"][m2]>> \in store.join["genres"]

Spaces(n) == [i \in 1..n |-> " "]

(* v is p without some leading and trailing spaces. *)
Padded(p, v) ==
    \E a, b \in 0..Len(p) : p = Spaces(a) \o v \o Spaces(b)

Trimmed(v) == v = <<>> \/ (v[1] # " " /\ v[Len(v)] # " ")

AdmissiblePieces(c) ==
    UNION {Range(Split(df[i].fields[c].s)) :
             i \in {j \in DOMAIN df : Admissible(df[j]) /\ NotNa(df[j].fields[c])}}

(* The first loop has just ended; the accumulators do not change after it. *)
Collected == pc = "movies"

(* C10: each accumulator set holds exactly the mentions of the admissible  *)
(* records with their leading and trailing whitespace removed and their    *)
(* letters unchanged, so that mentions differing only in such whitespace   *)
(* are one value and mentions differing in case are two; a reference table *)
(* never holds two rows for one value.                                     *)
C10_Deduplication ==
    /\ Collected =>
          \A c \in Categories :
              /\ \A v \in all_entities[c] :
                    Trimmed(v) /\ \E p \in AdmissiblePieces(c) : Padded(p, v)
              /\ \A p \in AdmissiblePieces(c) :
                    \E v \in all_entities[c] : Trimmed(v) /\ Padded(p, v)
    /\ \A c \in Categories : \A r1, r2 \in txn.ref[c] :
          r1.name = r2.name => r1 = r2

(* The mentions "A", " A" and "a " were collected as the two values "A"    *)
(* and "a", and the genre table holds one row for each.                    *)
C10_Witness ==
    /\ pc = "closed"
    /\ {<<"A">>, <<" ", "A">>, <<"a", " ">>} \subseteq AdmissiblePieces("genres")
    /\ all_entities["genres"] = {<<"A">>, <<"a">>}
    /\ RefNames(store.ref["genres"]) = {<<"A">>, <<"a">>}
    /\ Cardinality(store.ref["genres"]) = 2

(* Two admissible records with distinct ids and distinct imdb_ids whose     *)
(* genres fields mention "A" and nothing else.                             *)
SharedMentionInput ==
    /\ Len(raw) = 2
    /\ Len(Normalize(raw)) = 2
    /\ \A i \in 1..2 :
          /\ Admissible(Normalize(raw)[i])
          /\ raw[i].fields["genres"].kind = "str"
          /\ Range(Mentions(raw[i].fields["genres"].s)) = {<<"A">>}
    /\ raw[1].id # raw[2].id
    /\ raw[1].imdb_id # raw[2].imdb_id

CleanFirstRunDone == run = 1 /\ pc = "closed" /\ failures = 0

(* C11: two admissible records with distinct ids and codes that both       *)
(* mention the same genre leave, after a failure-free run on an empty      *)
(* store, exactly one row in the genres table and exactly two edges in the *)
(* movie-genre join table, one per movie, both to that row.                *)
C11_SharedMention ==
    (CleanFirstRunDone /\ SharedMentionInput) =>
        /\ ~raised
        /\ Cardinality(store.ref["genres"]) = 1
        /\ RefNames(store.ref["genres"]) = {<<"A">>}
        /\ store.join["genres"] =
              {<<raw[i].id, IdOf(store.ref["genres"], <<"A">>)>> : i \in 1..2}
        /\ Cardinality(store.join["genres"]) = 2

(* The failure-free first run on two records sharing the mention has ended. *)
C11_Witness ==
    /\ CleanFirstRunDone
    /\ SharedMentionInput
    /\ Cardinality(store.movies) = 2

(* C12: once the connection is established the run eventually reaches the  *)
(* closed state, whatever steps fail; after the close no storage operation *)
(* is issued; a run whose connection attempt fails ends at once, having    *)
(* issued no storage read or write.                                        *)
C12_CompletionAndClosure ==
    /\ (conn = "open") ~> (pc = "closed" /\ conn = "closed")
    /\ [][(conn = "closed" /\ run' = run) => UNCHANGED <<store, txn, last>>]_vars
    /\ [][(pc = "connect" /\ conn' # "open") =>
              (pc' = "returned" /\ UNCHANGED <<store, txn, last>>)]_vars
    /\ [](pc = "returned" =>
              (conn = "none" /\ last = NoEntry /\ store = storeAtStart /\ txn = storeAtStart))

(* A run in which the first loop raised and a storage failure was injected *)
(* has closed its connection.                                              *)
C12_Witness ==
    /\ pc = "closed"
    /\ conn = "closed"
    /\ raised
    /\ failures > 0

(* The place of a statement in the order Deduplicated, MoviesPersisted,    *)
(* EntitiesResolved, LinksPersisted, Closed.                               *)
Rank(p) ==
    CASE p = "load" -> 0
      [] p = "connect" -> 1
      [] p = "collect" -> 2
      [] p = "movies" -> 3
      [] p = "resolve" -> 4
      [] p = "build" -> 5
      [] p = "link" -> 6
      [] p = "except" -> 7
      [] p = "close" -> 8
      [] OTHER -> 9

(* C13: within a run the steps are taken in the order first loop, movie    *)
(* upsert, the five resolutions, second loop, the five relationship        *)
(* inserts, close; no relationship insert begins before the movie upsert   *)
(* has returned its set and all five categories have been resolved.        *)
C13_OrderingBarrier ==
    [][/\ run' = run => Rank(pc') >= Rank(pc)
       /\ pc' = "movies" => pc = "collect"
       /\ (pc' = "resolve" /\ pc # "resolve") =>
              /\ pc = "movies"
              /\ cat' = 1
              /\ last'.step = "movies"
       /\ (pc' = "resolve" /\ pc = "resolve") =>
              /\ cat' = cat + 1
              /\ last'.step = "resolve" /\ last'.cat = CatOrder[cat]
              /\ valid_movie_ids' = valid_movie_ids
       /\ pc' = "build" =>
              /\ pc = "resolve"
              /\ cat = Cardinality(Categories)
              /\ last'.step = "resolve" /\ last'.cat = CatOrder[cat]
       /\ (pc' = "link" /\ pc # "link") =>
              /\ pc = "build"
              /\ cat' = 1
              /\ last.step = "resolve"
       /\ last'.step = "link" =>
              /\ pc \in {"link", "except", "close", "closed"}
              /\ valid_movie_ids' = valid_movie_ids
              /\ ids' = ids
       /\ pc' = "closed" => pc = "close"
      ]_vars

(* A run with an injected storage failure went through every step and      *)
(* ended after the relationship insert of the last category.               *)
C13_Witness ==
    /\ pc = "closed"
    /\ failures > 0
    /\ ~raised
    /\ last.step = "link"
    /\ last.cat = CatOrder[Cardinality(Categories)]

(* C14: a piece that is empty after splitting and trimming is never added  *)
(* to a category's accumulator set, and no reference table ever holds a    *)
(* row with an empty value.                                                *)
C14_NonEmptyMentions ==
    \A c \in Categories :
        /\ <<>> \notin all_entities[c]
        /\ \A r \in txn.ref[c] \cup store.ref[c] : r.name # <<>>

FailedResolve == last.step = "resolve" /\ last.status = "failed"

(* C15: when batch_insert_data fails, at the read, the insert,   *)
(* the commit or the read-back, every pair of the returned mapping is a    *)
(* row of the table after the rollback, and every value the call committed *)
(* to the table is a key of the returned mapping.                          *)
C15_PartialMapping ==
    [][(pc = "resolve" /\ last'.status = "failed") =>
          /\ \A v \in DOMAIN ids'[CatOrder[cat]] :
                [id |-> ids'[CatOrder[cat]][v], name |-> v] \in store'.ref[CatOrder[cat]]
          /\ \A r \in store'.ref[CatOrder[cat]] \ store.ref[CatOrder[cat]] :
                r.name \in DOMAIN ids'[CatOrder[cat]]
      ]_vars

(* The read-back of a category failed after the commit: the table holds   *)
(* the values the call committed, the returned mapping does not.           *)
C15_Witness ==
    /\ FailedResolve
    /\ last.at = "fetch"
    /\ \E r \in store.ref[last.cat] :
          r.name \in all_entities[last.cat] /\ r.name \notin DOMAIN ids[last.cat]

(* C16: every row the movies table or a reference table held before the   *)
(* run is still there, unchanged, at every moment of the run, whatever     *)
(* steps fail; an input movie whose imdb_id is already stored is skipped   *)
(* (the stored row is the first one with that imdb_id), and a value that   *)
(* is already stored gets no second row.                                   *)
C16_ExistingRowsUnchanged ==
    /\ storeAtStart.movies \subseteq store.movies
    /\ storeAtStart.movies \subseteq txn.movies
    /\ \A c \in Categories :
          /\ storeAtStart.ref[c] \subseteq store.ref[c]
          /\ storeAtStart.ref[c] \subseteq txn.ref[c]
          /\ \A r1, r2 \in txn.ref[c] :
                (r1.name = r2.name \/ r1.id = r2.id) => r1 = r2
    /\ \A m1, m2 \in txn.movies :
          (m1.imdb_id = m2.imdb_id \/ m1.id = m2.id) => m1 = m2
    /\ (last.step = "movies" /\ last.status = "ok") =>
          \A m \in txn.movies \ storeAtStart.movies :
              \E i \in DOMAIN movies :
                  /\ movies[i] = m
                  /\ \A j \in 1..(i - 1) : movies[j].imdb_id # m.imdb_id

(* A re-run after a run with a storage failure has ended: the store held   *)
(* movies and entities when it began and holds more now.                   *)
C16_Witness ==
    /\ run = 2
    /\ pc = "closed"
    /\ storeAtStart.movies # {}
    /\ \E c \in Categories : storeAtStart.ref[c] # {}
    /\ \E c \in Categories : store.ref[c] # storeAtStart.ref[c]

(* C17: when a run in which no step failed ends, for every record whose    *)
(* movie id is in valid_movie_ids and every mention of one of its five     *)
(* fields that is a key of the category's mapping, the edge from the movie *)
(* to the mapped entity is a row of the category's join table.             *)
C17_EdgeCompleteness ==
    (pc = "closed" /\ failures = 0 /\ ~raised /\ last.step = "link") =>
        \A c \in Categories : \A j \in DOMAIN df :
            \A m \in Range(RecordMentions(df[j], c)) :
                (df[j].id \in valid_movie_ids /\ m \in DOMAIN ids[c]) =>
                    <<df[j].id, ids[c][m]>> \in store.join[c]

(* A failure-free run over two persisted movies has ended with edges in    *)
(* the genre join table and in the join tables of the other categories.    *)
C17_Witness ==
    /\ pc = "closed"
    /\ failures = 0
    /\ ~raised
    /\ Cardinality(valid_movie_ids) = 2
    /\ Cardinality(store.join["genres"]) >= 2
    /\ store.join["keywords"] # {}

MalformedField(r) == \E c \in Categories : Unsplittable(r.fields[c])

(* C18: a present field that is no splittable text adds nothing and does   *)
(* not fail: no exception leaves the loops, and after a failure-free run   *)
(* on two admissible records with distinct ids and imdb_ids, one of them   *)
(* with such a field, both movies are persisted.                           *)
C18_MalformedFieldTolerated ==
    /\ ~raised
    /\ (pc = "closed" /\ run = 1 /\ failures = 0 /\ Len(df) = 2) =>
          ((/\ Admissible(df[1]) /\ Admissible(df[2])
            /\ df[1].id # df[2].id /\ df[1].imdb_id # df[2].imdb_id
            /\ (MalformedField(df[1]) \/ MalformedField(df[2])))
           => Cardinality(store.movies) = 2)

(* C19: every edge of a join table was built from a mention of an          *)
(* admissible record of the file: a record skipped by the admissibility    *)
(* check contributes no edge, also when its movie id is in the movies      *)
(* table and its mentions are keys of the mapping.                         *)
C19_InadmissibleNoEdges ==
    \A c \in Categories : \A e \in store.join[c] :
        \E j \in DOMAIN Normalize(raw) :
            /\ Admissible(Normalize(raw)[j])
            /\ Normalize(raw)[j].id = e[1]
            /\ \E m \in Range(RecordMentions(Normalize(raw)[j], c)) :
                  [id |-> e[2], name |-> m] \in store.ref[c]

====
